---- MODULE Spec2Model ----
(***************************************************************************)
(* Bison population simulation (src/public/simulation.py).                 *)
(*                                                                         *)
(* NumPy float32 arrays are modelled as grids of fixed-point integers:     *)
(*   - a quantity (tonnes of biomass, head of bison, km) is held in units  *)
(*     of 1/Scale;                                                         *)
(*   - a dimensionless factor (weight, ratio, rate) is held in units of    *)
(*     1/Frac;                                                             *)
(*   - every array assignment rounds to the nearest unit, as a float       *)
(*     store rounds to the nearest representable value.                    *)
(* A grid is a function [0..h-1 -> [0..w-1 -> Int]]; None is <<>>.         *)
(***************************************************************************)
EXTENDS Integers, Sequences, FiniteSets, TLC

VARIABLES
    _biomass_data,      \* module global: the loaded raster, or None
    _cell_size_km,      \* module global: the loaded cell size
    _sim,               \* module global: "None" or "Simulation"
    instance,           \* "None" or "Simulation": a Simulation object exists
    config,             \* Simulation.config
    biomass,            \* Simulation.biomass
    max_biomass,        \* Simulation.max_biomass
    population,         \* Simulation.population
    cell_size_km,       \* Simulation.cell_size_km
    year,               \* Simulation.year
    _migration_kernel,  \* Simulation._migration_kernel
    _release_radius,    \* Simulation._release_radius (-1: attribute not set)
    ret,                \* what the last call returned or raised
    migrate_in,         \* population handed to the last _migrate call
    migrate_out         \* grid returned by the last _migrate call

vars == << _biomass_data, _cell_size_km, _sim, instance, config, biomass,
           max_biomass, population, cell_size_km, year, _migration_kernel,
           _release_radius, ret, migrate_in, migrate_out >>

(***************************************************************************)
(* Fixed-point arithmetic.                                                 *)
(***************************************************************************)
Scale == 100
Frac == 10000

None == << >>

Abs(x) == IF x < 0 THEN -x ELSE x

Max(a, b) == IF a >= b THEN a ELSE b

Min(a, b) == IF a <= b THEN a ELSE b

\* np.clip(x, lo, hi)
Clip(x, lo, hi) == IF x < lo THEN lo ELSE IF x > hi THEN hi ELSE x

\* n / d rounded to the nearest unit (d > 0), as a float store rounds
RDiv(n, d) == IF n >= 0 THEN (n + d \div 2) \div d
                        ELSE -((d \div 2 - n) \div d)

\* floor(sqrt(n)) for 0 <= n < 2^31
ISqrt(n) ==
    LET RECURSIVE Bisect(_, _)
        Bisect(lo, hi) ==
            IF lo >= hi THEN lo
            ELSE LET mid == (lo + hi + 1) \div 2
                 IN  IF mid * mid <= n THEN Bisect(mid, hi)
                                       ELSE Bisect(lo, mid - 1)
    IN  Bisect(0, Min(n, 46340))

\* np.sqrt of the integer n = dr^2 + dc^2, in thousandths
SqrtMilli(n) == ISqrt(n * 1000000)

\* distances up to the largest kernel offset, computed once
DistTable == [n \in 0..50 |-> SqrtMilli(n)]

Distance(dr, dc) ==
    LET n == dr * dr + dc * dc
    IN  IF n \in DOMAIN DistTable THEN DistTable[n] ELSE SqrtMilli(n)

(***************************************************************************)
(* Grids.                                                                  *)
(***************************************************************************)
Height(a) == Cardinality(DOMAIN a)

Width(a) == IF a = None THEN 0 ELSE Cardinality(DOMAIN a[0])

Rows(a) == 0..(Height(a) - 1)

Cols(a) == 0..(Width(a) - 1)

\* ndarray.sum()
GridSum(a) ==
    LET h == Height(a)
        w == Width(a)
        RECURSIVE RowSum(_, _)
        RowSum(r, c) == IF c >= w THEN 0 ELSE a[r][c] + RowSum(r, c + 1)
        RECURSIVE Total(_)
        Total(r) == IF r >= h THEN 0 ELSE RowSum(r, 0) + Total(r + 1)
    IN  Total(0)

\* np.zeros((h, w))
Zeros(h, w) == [r \in 0..(h - 1) |-> [c \in 0..(w - 1) |-> 0]]

IsBorder(a, r, c) ==
    r = 0 \/ c = 0 \/ r = Height(a) - 1 \/ c = Width(a) - 1

(***************************************************************************)
(* SimulationConfig.                                                       *)
(***************************************************************************)
DefaultConfig ==
    [ digestibility_factor   |-> Frac,
      annual_growth_factor   |-> (4 * Frac) \div 10,
      utilization_factor     |-> (5 * Frac) \div 10,
      body_mass_kg           |-> 700,
      daily_intake_rate      |-> (2 * Frac) \div 100,
      max_growth_rate        |-> (10 * Frac) \div 100,
      starvation_threshold   |-> (2 * Frac) \div 10,
      min_viable_density     |-> (5 * Scale) \div 100,
      pioneer_bonus          |-> (5 * Frac) \div 100,
      annual_migration_km    |-> 50 * Scale,
      diffusion_rate         |-> (15 * Frac) \div 100,
      food_preference_weight |-> Frac ]

\* SimulationConfig.annual_intake_tonnes, in quantity units
annual_intake_tonnes(cfg) ==
    RDiv(cfg.body_mass_kg * cfg.daily_intake_rate * 365,
         1000 * (Frac \div Scale))

(***************************************************************************)
(* Inputs of the model: rasters, cell sizes, start cells, head-counts.     *)
(***************************************************************************)
GridH == 4
GridW == 4

\* all water
WaterGrid == Zeros(GridH, GridW)

\* 10 tonnes on every interior cell, water on the border ring
IslandGrid ==
    [r \in 0..(GridH - 1) |-> [c \in 0..(GridW - 1) |->
        IF r = 0 \/ c = 0 \/ r = GridH - 1 \/ c = GridW - 1
        THEN 0 ELSE 10 * Scale]]

\* land up to the border, uneven forage, one lake cell in the interior
CoastGrid ==
    [r \in 0..(GridH - 1) |-> [c \in 0..(GridW - 1) |->
        IF r = 1 /\ c = 2 THEN 0
        ELSE (2 + 9 * ((r + 2 * c) % 3)) * Scale]]

Grids == {WaterGrid, IslandGrid, CoastGrid}

\* 1 km and 10 km rasters
CellSizes == {Scale, 10 * Scale}

\* the rasters a host loads: a grid and its cell size
Rasters ==
    {<<WaterGrid, Scale>>, <<IslandGrid, Scale>>, <<IslandGrid, 10 * Scale>>,
     <<CoastGrid, 10 * Scale>>}

StartCells == {<<0, 0>>, <<1, 1>>}

\* head-counts a caller asks for, and one that is not a head-count
Populations == {0, 100}

BadPopulations == {-1}

Configs ==
    { DefaultConfig,
      [DefaultConfig EXCEPT !.annual_growth_factor = Frac,
                            !.utilization_factor = Frac],
      [DefaultConfig EXCEPT !.annual_growth_factor = 0,
                            !.utilization_factor = 0] }

(***************************************************************************)
(* Simulation._calculate_release_radius                                    *)
(***************************************************************************)
sample_radius == 50

\* local_biomass[land_mask]: the land cells of the sample window, 0 elsewhere
local_land(b, row, col) ==
    LET r_min == Max(0, row - sample_radius)
        r_max == Min(Height(b), row + sample_radius)
        c_min == Max(0, col - sample_radius)
        c_max == Min(Width(b), col + sample_radius)
    IN  [r \in Rows(b) |-> [c \in Cols(b) |->
            IF r >= r_min /\ r < r_max /\ c >= c_min /\ c < c_max /\ b[r][c] > 0
            THEN b[r][c] ELSE 0]]

\* land_mask.sum()
CountPositive(a) ==
    GridSum([r \in Rows(a) |-> [c \in Cols(a) |-> IF a[r][c] > 0 THEN 1 ELSE 0]])

\* head per cell in Frac units: the mean forage of the land cells over the
\* intake, or 0.1 when the window holds no land
avg_cc(land, cfg) ==
    IF CountPositive(land) > 0
    THEN RDiv(RDiv(GridSum(land), CountPositive(land)) * cfg.utilization_factor,
              annual_intake_tonnes(cfg))
    ELSE Frac \div 10

\* cells in Scale units, target_ratio = 0.8
cells_needed(cc, total_pop) ==
    IF cc > 0 THEN RDiv(total_pop * Frac * 10 * Scale, cc * 8)
    ELSE 2000 * Scale

\* int(np.sqrt(cells / 3.14)) raises ValueError on nan, so on cells < 0
release_radius(cells) ==
    IF cells < 0
    THEN [raised |-> TRUE, radius |-> -1]
    ELSE [raised |-> FALSE,
          radius |-> Min(300, Max(30, ISqrt(cells \div ((314 * Scale) \div 100))))]

_calculate_release_radius(b, cfg, row, col, total_pop) ==
    release_radius(Max(cells_needed(avg_cc(local_land(b, row, col), cfg), total_pop),
                       total_pop * 3 * Scale))

(***************************************************************************)
(* rng.poisson: a draw is any natural number per cell, and 0 where the     *)
(* expectation is 0.  A draw descriptor picks one outcome: base times the  *)
(* rounded expectation, plus extra animals on one hot cell.                *)
(***************************************************************************)
MaxExtraDraws == 3

HotCells == {<<1, 1>>, <<0, 1>>}

Draws ==
    {[base |-> b, hot |-> <<0, 0>>, extra |-> 0] : b \in 0..1}
    \cup {[base |-> 1, hot |-> <<1, 1>>, extra |-> MaxExtraDraws],
          [base |-> 0, hot |-> <<0, 1>>, extra |-> MaxExtraDraws]}

poisson(lam, d) ==
    [r \in Rows(lam) |-> [c \in Cols(lam) |->
        IF lam[r][c] <= 0 THEN 0
        ELSE d.base * RDiv(lam[r][c], Scale)
             + (IF <<r, c>> = d.hot THEN d.extra ELSE 0)]]

(***************************************************************************)
(* Simulation._initialize_population                                       *)
(***************************************************************************)
\* within the window, within the radius, and on land
valid_mask(b, radius, center_row, center_col) ==
    LET row_lo == Max(0, center_row - radius)
        row_hi == Min(Height(b), center_row + radius + 1)
        col_lo == Max(0, center_col - radius)
        col_hi == Min(Width(b), center_col + radius + 1)
    IN  [r \in Rows(b) |-> [c \in Cols(b) |->
            /\ r >= row_lo /\ r < row_hi
            /\ c >= col_lo /\ c < col_hi
            /\ Distance(r - center_row, c - center_col) <= radius * 1000
            /\ b[r][c] > 0]]

AnyTrue(m) == \E r \in Rows(m) : \E c \in Cols(m) : m[r][c]

\* distance_weight * biomass_weight: 1 / (1 + distance) in thousandths,
\* sqrt(biomass) in Scale units
weights(b, valid, center_row, center_col) ==
    [r \in Rows(b) |-> [c \in Cols(b) |->
        IF valid[r][c]
        THEN RDiv(RDiv(1000 * 1000,
                       1000 + Distance(r - center_row, c - center_col))
                      * ISqrt(b[r][c] * Scale), Scale)
        ELSE 0]]

\* weights / weights.sum() * total_population
expected(wts, weights_sum, total_population) ==
    [r \in Rows(wts) |-> [c \in Cols(wts) |->
        RDiv(wts[r][c] * total_population * Scale, weights_sum)]]

AnyNegative(a) == \E r \in Rows(a) : \E c \in Cols(a) : a[r][c] < 0

\* actual[~valid_mask] = 0
actual(valid, drawn) ==
    [r \in Rows(drawn) |-> [c \in Cols(drawn) |->
        IF valid[r][c] THEN drawn[r][c] ELSE 0]]

\* lines 135-136: actual * total_population / actual.sum() when
\* actual.sum() > 0, else the draws as they are
normalize(act, actual_sum, total_population) ==
    [r \in Rows(act) |-> [c \in Cols(act) |->
        IF actual_sum > 0
        THEN RDiv(act[r][c] * total_population * Scale, actual_sum)
        ELSE act[r][c] * Scale]]

normalized(act, total_population) == normalize(act, GridSum(act), total_population)

\* lines 131-139; rng.poisson raises ValueError when an expectation is < 0
distribute(valid, lam, total_population, d) ==
    IF AnyNegative(lam)
    THEN [raised |-> TRUE, population |-> None]
    ELSE [raised |-> FALSE,
          population |-> normalized(actual(valid, poisson(lam, d)), total_population)]

\* lines 127-139
share(valid, wts, total_population, d) ==
    distribute(valid, expected(wts, GridSum(wts), total_population),
               total_population, d)

\* lines 119-139
populate(b, valid, center_row, center_col, total_population, d) ==
    IF ~AnyTrue(valid)
    THEN [raised |-> FALSE, population |-> Zeros(Height(b), Width(b))]
    ELSE share(valid, weights(b, valid, center_row, center_col), total_population, d)

_initialize_population(b, radius, center_row, center_col, total_population, d) ==
    populate(b, valid_mask(b, radius, center_row, center_col),
             center_row, center_col, total_population, d)

\* lines 65-70 of initialize: the release radius, then the seeding
seed_within(rr, ip) ==
    [raised |-> ip.raised, radius |-> rr.radius, population |-> ip.population]

seed_from(b, rr, start_row, start_col, total_population, d) ==
    IF rr.raised
    THEN [raised |-> TRUE, radius |-> -1, population |-> None]
    ELSE seed_within(rr,
                     _initialize_population(b, rr.radius, start_row, start_col,
                                            total_population, d))

seed(b, cfg, start_row, start_col, total_population, d) ==
    seed_from(b, _calculate_release_radius(b, cfg, start_row, start_col, total_population),
              start_row, start_col, total_population, d)

\* the seedings of the model's inputs, computed once
SeedTable ==
    [b \in Grids |-> [cfg \in Configs |-> [rc \in StartCells |->
        [tp \in Populations \cup BadPopulations |-> [d \in Draws |->
            seed(b, cfg, rc[1], rc[2], tp, d)]]]]]

Seeding(b, cfg, start_row, start_col, total_population, d) ==
    IF /\ b \in Grids
       /\ cfg \in Configs
       /\ <<start_row, start_col>> \in StartCells
       /\ total_population \in Populations \cup BadPopulations
       /\ d \in Draws
    THEN SeedTable[b][cfg][<<start_row, start_col>>][total_population][d]
    ELSE seed(b, cfg, start_row, start_col, total_population, d)

(***************************************************************************)
(* Simulation._create_migration_kernel                                     *)
(* The kernel is a function of the offsets -kr..kr in both axes.           *)
(***************************************************************************)
\* int(cells_per_year / 4), held in 2..5
kernel_radius(cfg, cell_size) ==
    Min(5, Max(2, cfg.annual_migration_km \div (4 * cell_size)))

\* 1 / (1 + distance)^2 in Frac units where 0 < distance <= kr, else 0
raw_kernel(kr) ==
    [y \in (-kr)..kr |-> [x \in (-kr)..kr |->
        IF Distance(y, x) > 0 /\ Distance(y, x) <= kr * 1000
        THEN RDiv(RDiv(Frac * 1000, 1000 + Distance(y, x))
                      * RDiv(Frac * 1000, 1000 + Distance(y, x)), Frac)
        ELSE 0]]

\* kernel.sum()
KernelSum(k, kr) ==
    GridSum([i \in 0..(2 * kr) |-> [j \in 0..(2 * kr) |-> k[i - kr][j - kr]]])

\* kernel / kernel.sum() * diffusion_rate, and 1 - diffusion_rate at the centre
normalize_kernel(raw, raw_sum, kr, cfg) ==
    [y \in (-kr)..kr |-> [x \in (-kr)..kr |->
        IF y = 0 /\ x = 0 THEN Frac - cfg.diffusion_rate
        ELSE IF raw_sum > 0 THEN RDiv(raw[y][x] * cfg.diffusion_rate, raw_sum)
        ELSE raw[y][x]]]

\* lines 154-157
scaled_kernel(raw, kr, cfg) == normalize_kernel(raw, KernelSum(raw, kr), kr, cfg)

_create_migration_kernel(cfg, cell_size) ==
    scaled_kernel(raw_kernel(kernel_radius(cfg, cell_size)),
                  kernel_radius(cfg, cell_size), cfg)

\* the kernels of the model's inputs, computed once
KernelTable ==
    [cfg \in Configs |-> [cs \in CellSizes |-> _create_migration_kernel(cfg, cs)]]

MigrationKernel(cfg, cell_size) ==
    IF cfg \in Configs /\ cell_size \in CellSizes
    THEN KernelTable[cfg][cell_size]
    ELSE _create_migration_kernel(cfg, cell_size)

(***************************************************************************)
(* Simulation._migrate                                                     *)
(***************************************************************************)
\* round-off of the FFT, in quantity units, added to every diffused cell:
\* the spectral convolution returns values slightly off the exact sums,
\* and slightly negative ones where the exact sum is 0
FFTNoise == {-1, 0, 1}

\* signal.fftconvolve(population, kernel, mode='same')
fftconvolve(pop, kernel, noise) ==
    LET kr == (Cardinality(DOMAIN kernel) - 1) \div 2
    IN  [r \in Rows(pop) |-> [c \in Cols(pop) |->
            RDiv(GridSum([i \in Rows(pop) |-> [j \in Cols(pop) |->
                     IF Abs(r - i) <= kr /\ Abs(c - j) <= kr
                     THEN pop[i][j] * kernel[r - i][c - j]
                     ELSE 0]]), Frac) + noise]]

\* lines 204-224: the diffused grid pulled along the capacity gradient
directed(diffused, carrying_capacity, cfg) ==
    LET h == Height(diffused)
        w == Width(diffused)
        \* np.diff(..., prepend=first row / first column)
        grad_y(r, c) == IF r = 0 THEN 0
                        ELSE carrying_capacity[r][c] - carrying_capacity[r - 1][c]
        grad_x(r, c) == IF c = 0 THEN 0
                        ELSE carrying_capacity[r][c] - carrying_capacity[r][c - 1]
        bias == RDiv(RDiv(cfg.food_preference_weight * cfg.diffusion_rate, Frac) * 3, 10)
        cap == (2 * Frac) \div 10
        up_w(r, c) == Clip(RDiv((-grad_y(r, c)) * bias, Scale), 0, cap)
        down_w(r, c) == Clip(RDiv(grad_y(r, c) * bias, Scale), 0, cap)
        left_w(r, c) == Clip(RDiv((-grad_x(r, c)) * bias, Scale), 0, cap)
        right_w(r, c) == Clip(RDiv(grad_x(r, c) * bias, Scale), 0, cap)
        stay_w(r, c) == Frac - (up_w(r, c) + down_w(r, c) + left_w(r, c) + right_w(r, c))
    IN  [r \in 0..(h - 1) |-> [c \in 0..(w - 1) |->
            \* np.roll(diffused, -1 / 1, axis) for up / down and left / right
            RDiv(stay_w(r, c) * diffused[r][c]
                 + up_w(r, c) * diffused[(r + 1) % h][c]
                 + down_w(r, c) * diffused[(r + h - 1) % h][c]
                 + left_w(r, c) * diffused[r][(c + 1) % w]
                 + right_w(r, c) * diffused[r][(c + w - 1) % w], Frac)]]

\* variant of masked that clears the edges only
masked_edges_only(result, maxb) ==
    [r \in Rows(result) |-> [c \in Cols(result) |->
        IF IsBorder(result, r, c) THEN 0 ELSE result[r][c]]]

\* variant of masked that clears the water only
masked_water_only(result, maxb) ==
    [r \in Rows(result) |-> [c \in Cols(result) |->
        IF maxb[r][c] <= 0 THEN 0 ELSE result[r][c]]]

\* lines 227-228: mask water and edges
masked(result, maxb) ==
    [r \in Rows(result) |-> [c \in Cols(result) |->
        IF maxb[r][c] <= 0 \/ IsBorder(result, r, c) THEN 0 ELSE result[r][c]]]

\* variant of rescale that leaves the masked grid as it is
rescale_never(result, total_before, total_after) == result

\* lines 233-234: result *= total_before / total_after
rescale(result, total_before, total_after) ==
    IF total_after > 0
    THEN [r \in Rows(result) |-> [c \in Cols(result) |->
             RDiv(result[r][c] * total_before, total_after)]]
    ELSE result

\* lines 231-234
conserve(result, total_before) == rescale(result, total_before, GridSum(result))

\* variant of _migrate without the early return of lines 198-199
_migrate_always(pop, kernel, carrying_capacity, maxb, cfg, noise) ==
    conserve(masked(directed(fftconvolve(pop, kernel, noise),
                             carrying_capacity, cfg), maxb),
             GridSum(pop))

_migrate(pop, kernel, carrying_capacity, maxb, cfg, noise) ==
    IF GridSum(pop) < Scale \div 10
    THEN pop
    ELSE conserve(masked(directed(fftconvolve(pop, kernel, noise),
                                  carrying_capacity, cfg), maxb),
                  GridSum(pop))

(***************************************************************************)
(* Simulation._update_population                                           *)
(***************************************************************************)
\* epsilon = 1e-10 lies below the resolution of a quantity
epsilon == 0

\* a float quotient beyond this magnitude is held at it; the growth factor
\* is clipped to [-0.3, 0.15] afterwards
RatioCap == 100 * Frac

\* pop / (carrying_capacity + epsilon) of one cell
capacity_ratio(p, k) ==
    IF k + epsilon > 0 THEN Clip(RDiv(p * Frac, k + epsilon), -RatioCap, RatioCap)
    ELSE IF p > 0 THEN RatioCap
    ELSE IF p < 0 THEN -RatioCap
    ELSE 0

\* lines 247-269: the growth factor of one cell before clipping
growth_factor(p, ratio, fs, cfg) ==
    LET is_viable == p >= cfg.min_viable_density
        well_fed == fs > cfg.starvation_threshold
        below_capacity == ratio < Frac \div 2
        effective_rate == IF below_capacity
                          THEN cfg.max_growth_rate + cfg.pioneer_bonus
                          ELSE cfg.max_growth_rate
        logistic == RDiv(RDiv(effective_rate * fs, Frac) * (Frac - ratio), Frac)
        allee_decline ==
            RDiv((-((2 * Frac) \div 10)) * (cfg.min_viable_density - p),
                 cfg.min_viable_density)
        starvation_factor ==
            -RDiv(cfg.max_growth_rate
                      * (Frac - RDiv(fs * Frac, cfg.starvation_threshold)),
                  Frac)
    IN  \* pop < 1e-10 holds of exactly the quantities <= 0
        IF p <= epsilon THEN 0
        ELSE IF ~well_fed THEN starvation_factor
        ELSE IF is_viable THEN logistic
        ELSE allee_decline

\* variant of new_pop with the upper bound of the last clip only
new_pop_unclipped(p, g) ==
    Min(RDiv(p * (Frac + Clip(g, -((3 * Frac) \div 10), (15 * Frac) \div 100)), Frac),
        1000000 * Scale)

\* lines 272-273: np.clip(pop * (1 + np.clip(growth_factor, -0.3, 0.15)), 0, 1e6)
new_pop(p, g) ==
    Clip(RDiv(p * (Frac + Clip(g, -((3 * Frac) \div 10), (15 * Frac) \div 100)), Frac),
         0, 1000000 * Scale)

_update_population(pop, cc, fs, cfg) ==
    [r \in Rows(pop) |-> [c \in Cols(pop) |->
        new_pop(pop[r][c],
                growth_factor(pop[r][c], capacity_ratio(pop[r][c], cc[r][c]),
                              fs[r][c], cfg))]]

(***************************************************************************)
(* Simulation.step on an initialized object.  st holds the mutable fields: *)
(* biomass, population, year, and the grids of the last _migrate call.     *)
(***************************************************************************)
\* biomass * digestibility_factor * utilization_factor
sustainable_harvest(b, cfg) ==
    [r \in Rows(b) |-> [c \in Cols(b) |->
        RDiv(RDiv(b[r][c] * cfg.digestibility_factor, Frac)
                 * cfg.utilization_factor, Frac)]]

food_demand(pop, cfg) ==
    [r \in Rows(pop) |-> [c \in Cols(pop) |->
        RDiv(pop[r][c] * annual_intake_tonnes(cfg), Scale)]]

\* np.minimum(sustainable_harvest, food_demand)
consumed(harvest, demand) ==
    [r \in Rows(harvest) |-> [c \in Cols(harvest) |->
        Min(harvest[r][c], demand[r][c])]]

food_satisfaction(eaten, demand) ==
    [r \in Rows(demand) |-> [c \in Cols(demand) |->
        IF demand[r][c] > 0
        THEN Clip(RDiv(eaten[r][c] * Frac, demand[r][c]), 0, Frac)
        ELSE Frac]]

carrying_capacity(harvest, cfg) ==
    [r \in Rows(harvest) |-> [c \in Cols(harvest) |->
        RDiv(harvest[r][c] * Scale, annual_intake_tonnes(cfg))]]

\* variant of new_biomass whose regrowth is a share of the ceiling itself
new_biomass_unbounded(b, maxb, eaten, cfg) ==
    [r \in Rows(b) |-> [c \in Cols(b) |->
        Max(b[r][c] + RDiv(maxb[r][c] * cfg.annual_growth_factor, Frac)
                - eaten[r][c], 0)]]

\* lines 182-183: np.clip(biomass + regrowth - consumed, 0, None)
new_biomass(b, maxb, eaten, cfg) ==
    [r \in Rows(b) |-> [c \in Cols(b) |->
        Max(b[r][c] + RDiv((maxb[r][c] - b[r][c]) * cfg.annual_growth_factor, Frac)
                - eaten[r][c], 0)]]

\* lines 186-194: the fields once the population has migrated
grow(st, biomass_after, cc, fs, cfg, migrated) ==
    [st EXCEPT !.biomass     = biomass_after,
               !.population  = _update_population(migrated, cc, fs, cfg),
               !.year        = st.year + 1,
               !.migrate_in  = st.population,
               !.migrate_out = migrated,
               !.kind        = "snapshot"]

\* lines 166-186 on the grids of food
feed(st, harvest, demand, cfg, noise) ==
    grow(st,
         new_biomass(st.biomass, st.max_biomass, consumed(harvest, demand), cfg),
         carrying_capacity(harvest, cfg),
         food_satisfaction(consumed(harvest, demand), demand),
         cfg,
         _migrate(st.population, st.kernel, carrying_capacity(harvest, cfg),
                  st.max_biomass, cfg, noise))

step(st, cfg, noise) ==
    feed(st, sustainable_harvest(st.biomass, cfg), food_demand(st.population, cfg),
         cfg, noise)

\* the loop of step_simulation: one step per element of noises
RECURSIVE step_loop(_, _, _)
step_loop(st, cfg, noises) ==
    IF noises = << >> THEN st
    ELSE step_loop(step(st, cfg, Head(noises)), cfg, Tail(noises))

Init ==
    /\ _biomass_data = None
    /\ _cell_size_km = Scale
    /\ _sim = "None"
    /\ instance = "None"
    /\ config = DefaultConfig
    /\ biomass = None
    /\ max_biomass = None
    /\ population = None
    /\ cell_size_km = Scale
    /\ year = 0
    /\ _migration_kernel = None
    /\ _release_radius = -1
    /\ ret = [op |-> "none", kind |-> "none", arg |-> 0, year |-> 0]
    /\ migrate_in = None
    /\ migrate_out = None

(***************************************************************************)
(* Bounds of the exploration.                                              *)
(***************************************************************************)
\* steps are taken while year < MaxYear
MaxYear == 2

\* step_simulation(years) is called with 0 <= years <= MaxYearsArg
MaxYearsArg == 1

NoiseSeqs == UNION {[1..n -> FFTNoise] : n \in 0..MaxYearsArg}

\* the outcome of a call: which call, how it ended ("snapshot", "info" and
\* "object" are returns, "error" is the error JSON, "raised" an exception),
\* its integer argument (total_population or years) and the year it reports
Ret(op, kind, arg, y) == [op |-> op, kind |-> kind, arg |-> arg, year |-> y]

\* the fields of the Simulation object that initialize and step assign
Fields ==
    [ biomass     |-> biomass,
      max_biomass |-> max_biomass,
      population  |-> population,
      cell_size   |-> cell_size_km,
      year        |-> year,
      kernel      |-> _migration_kernel,
      radius      |-> _release_radius,
      migrate_in  |-> migrate_in,
      migrate_out |-> migrate_out,
      kind        |-> "none" ]

\* the fields as Simulation.__init__ leaves them
FreshFields ==
    [ biomass     |-> None,
      max_biomass |-> None,
      population  |-> None,
      cell_size   |-> Scale,
      year        |-> 0,
      kernel      |-> None,
      radius      |-> -1,
      migrate_in  |-> None,
      migrate_out |-> None,
      kind        |-> "object" ]

\* the object takes the fields f, and the call op returns or raises f.kind
SetFields(f, op, arg) ==
    /\ biomass' = f.biomass
    /\ max_biomass' = f.max_biomass
    /\ population' = f.population
    /\ cell_size_km' = f.cell_size
    /\ year' = f.year
    /\ _migration_kernel' = f.kernel
    /\ _release_radius' = f.radius
    /\ migrate_in' = f.migrate_in
    /\ migrate_out' = f.migrate_out
    /\ ret' = Ret(op, f.kind, arg, f.year)

\* variant of Fail that counts the failed call as a year
Fail_advancing(op, kind, arg, y) ==
    /\ ret' = Ret(op, kind, arg, y)
    /\ year' = year + 1
    /\ UNCHANGED << biomass, max_biomass, population, cell_size_km,
                    _migration_kernel, _release_radius, migrate_in, migrate_out >>

\* the call op fails with kind and assigns nothing
Fail(op, kind, arg, y) ==
    /\ ret' = Ret(op, kind, arg, y)
    /\ UNCHANGED << biomass, max_biomass, population, cell_size_km, year,
                    _migration_kernel, _release_radius, migrate_in, migrate_out >>

(***************************************************************************)
(* Simulation.initialize: the fields after the call, with kind "snapshot"  *)
(* when it returns and "raised" when an exception leaves it half-way.      *)
(***************************************************************************)
\* lines 59-62
assigned(old, b, cell_size) ==
    [old EXCEPT !.biomass = b, !.max_biomass = b, !.cell_size = cell_size,
                !.year = 0, !.migrate_in = None, !.migrate_out = None]

\* lines 65-75
seeded(f, sd, kernel) ==
    IF sd.raised
    THEN [f EXCEPT !.radius = IF sd.radius < 0 THEN f.radius ELSE sd.radius,
                   !.kind = "raised"]
    ELSE [f EXCEPT !.radius = sd.radius,
                   !.population = sd.population,
                   !.kernel = kernel,
                   !.kind = "snapshot"]

initialize(old, b, cell_size, cfg, start_row, start_col, total_population, d) ==
    seeded(assigned(old, b, cell_size),
           Seeding(b, cfg, start_row, start_col, total_population, d),
           MigrationKernel(cfg, cell_size))

(***************************************************************************)
(* Actions.                                                                *)
(***************************************************************************)
\* load_data(biomass, cell_size_km); the host loads the raster once
LoadData(g, cs) ==
    /\ _biomass_data = None
    /\ _biomass_data' = g
    /\ _cell_size_km' = cs
    /\ ret' = Ret("load_data", "info", 0, 0)
    /\ UNCHANGED << _sim, instance, config, biomass, max_biomass, population,
                    cell_size_km, year, _migration_kernel, _release_radius,
                    migrate_in, migrate_out >>

\* Simulation(config), by a caller that uses the class directly
Construct(cfg) ==
    /\ instance = "None"
    /\ instance' = "Simulation"
    /\ config' = cfg
    /\ SetFields(FreshFields, "__init__", 0)
    /\ UNCHANGED << _biomass_data, _cell_size_km, _sim >>

\* Simulation.initialize(biomass, cell_size_km, row, col, total_population),
\* called with the loaded raster on an object the caller constructed
Initialize(start_row, start_col, total_population, d) ==
    /\ instance = "Simulation"
    /\ _sim = "None"
    /\ _biomass_data # None
    /\ SetFields(initialize(Fields, _biomass_data, _cell_size_km, config,
                            start_row, start_col, total_population, d),
                 "initialize", total_population)
    /\ UNCHANGED << _biomass_data, _cell_size_km, _sim, instance, config >>

\* start_simulation(row, col, total_population)
StartSimulation(row, col, total_population, d) ==
    IF _biomass_data = None
    THEN /\ Fail("start_simulation", "error", total_population, 0)
         /\ UNCHANGED << _biomass_data, _cell_size_km, _sim, instance, config >>
    ELSE /\ _sim' = "Simulation"
         /\ instance' = "Simulation"
         /\ config' = DefaultConfig
         /\ SetFields(initialize(FreshFields, _biomass_data, _cell_size_km,
                                 DefaultConfig, row, col, total_population, d),
                      "start_simulation", total_population)
         /\ UNCHANGED << _biomass_data, _cell_size_km >>

\* Simulation.step()
Step(noise) ==
    /\ instance = "Simulation"
    /\ _sim = "None"
    /\ year < MaxYear
    /\ IF biomass = None \/ population = None
       THEN \* None * float raises TypeError before anything is assigned
            Fail("step", "raised", 0, year)
       ELSE SetFields(step(Fields, config, noise), "step", 0)
    /\ UNCHANGED << _biomass_data, _cell_size_km, _sim, instance, config >>

\* step_simulation(years), years = Len(noises)
StepSimulation(noises) ==
    /\ year + Len(noises) <= MaxYear
    /\ IF _sim = "None"
       THEN Fail("step_simulation", "error", Len(noises), 0)
       ELSE IF noises = << >> \/ biomass = None \/ population = None
       THEN \* the first _sim.step() raises, or state stays None and
            \* state['year'] raises TypeError
            Fail("step_simulation", "raised", Len(noises), year)
       ELSE SetFields(step_loop(Fields, config, noises), "step_simulation",
                      Len(noises))
    /\ UNCHANGED << _biomass_data, _cell_size_km, _sim, instance, config >>

Next ==
    \/ \E ra \in Rasters : LoadData(ra[1], ra[2])
    \/ \E cfg \in Configs : Construct(cfg)
    \/ \E rc \in StartCells, tp \in Populations, d \in Draws :
           Initialize(rc[1], rc[2], tp, d)
    \/ \E rc \in StartCells, tp \in Populations \cup BadPopulations, d \in Draws :
           StartSimulation(rc[1], rc[2], tp, d)
    \/ \E noise \in FFTNoise : Step(noise)
    \/ \E noises \in NoiseSeqs : StepSimulation(noises)

Spec == Init /\ [][Next]_vars
(***************************************************************************)
(* _migrate as a function of its input: a Simulation initialized on one of *)
(* the rasters whose population attribute holds any grid of MigrateInputs. *)
(***************************************************************************)
\* one occupied cell holding 0.05, 0.09, 0.1 or 100 head, or no head at all
MigrateInputs ==
    {Zeros(GridH, GridW)}
    \cup {[r \in 0..(GridH - 1) |-> [c \in 0..(GridW - 1) |->
              IF r = row /\ c = col THEN amount ELSE 0]] :
          row \in 0..(GridH - 1), col \in 0..(GridW - 1),
          amount \in {Scale \div 20, Scale \div 10 - 1, Scale \div 10, 100 * Scale}}

InitMigrate ==
    /\ \E ra \in Rasters :
           /\ _biomass_data = ra[1]
           /\ _cell_size_km = ra[2]
           /\ biomass = ra[1]
           /\ max_biomass = ra[1]
           /\ cell_size_km = ra[2]
           /\ _migration_kernel = MigrationKernel(DefaultConfig, ra[2])
    /\ _sim = "None"
    /\ instance = "Simulation"
    /\ config = DefaultConfig
    /\ population \in MigrateInputs
    /\ year = 0
    /\ _release_radius = 30
    /\ ret = Ret("initialize", "snapshot", 0, 0)
    /\ migrate_in = None
    /\ migrate_out = None

NextMigrate == \E noise \in FFTNoise : Step(noise)

SpecMigrate == InitMigrate /\ [][NextMigrate]_vars

(***************************************************************************)
(* The 5 x 5 scenario: 10 tonnes on the interior cells, water on the       *)
(* border ring, 100 head released at (2, 2) under the default config.      *)
(***************************************************************************)
ScenarioGrid ==
    [r \in 0..4 |-> [c \in 0..4 |->
        IF r \in {0, 4} \/ c \in {0, 4} THEN 0 ELSE 10 * Scale]]

\* draws of the scenario: none, the rounded expectation, and extra animals
\* on the start cell or on a corner of the interior
ScenarioDraws ==
    {[base |-> b, hot |-> hc, extra |-> e] :
        b \in 0..1, hc \in {<<2, 2>>, <<1, 1>>}, e \in {0, MaxExtraDraws}}

NextScenario ==
    \/ \E cs \in CellSizes : LoadData(ScenarioGrid, cs)
    \/ \E d \in ScenarioDraws : StartSimulation(2, 2, 100, d)
    \/ \E noises \in NoiseSeqs : StepSimulation(noises)

SpecScenario == Init /\ [][NextScenario]_vars

(***************************************************************************)
(* Properties.                                                             *)
(***************************************************************************)
\* the last call was a step that returned a snapshot
Stepped == ret.op \in {"step", "step_simulation"} /\ ret.kind = "snapshot"

\* initialize has seeded the object
Seeded == biomass # None /\ max_biomass # None /\ population # None

\* the last call was an initialize that returned a snapshot
JustSeeded == ret.op \in {"initialize", "start_simulation"} /\ ret.kind = "snapshot"

\* every stored cell is rounded by at most half a unit
Tolerance(a) == Height(a) * Width(a)

BorderCells(a) == {rc \in Rows(a) \X Cols(a) : IsBorder(a, rc[1], rc[2])}

\* _get_state: occupied_cells
occupied_cells(pop) ==
    GridSum([r \in Rows(pop) |-> [c \in Cols(pop) |->
                IF pop[r][c] > Scale \div 10 THEN 1 ELSE 0]])

\* C1: when the total handed to _migrate is at least 0.1 and the masked grid
\* keeps a positive total (which is when the returned total is positive),
\* the total returned by _migrate equals the total handed to it, up to the
\* rounding of the cells.
MigrationConservesTotal ==
    (Stepped /\ GridSum(migrate_in) >= Scale \div 10 /\ GridSum(migrate_out) > 0)
        => Abs(GridSum(migrate_out) - GridSum(migrate_in)) <= Tolerance(migrate_in)

\* a migration that lost mass to the mask and was rescaled
MigrationRescaled ==
    /\ Stepped
    /\ GridSum(migrate_in) >= Scale \div 10
    /\ GridSum(migrate_out) > 0
    /\ \E rc \in BorderCells(migrate_in) : migrate_in[rc[1]][rc[2]] > 0
    /\ migrate_out # migrate_in

\* C2: once initialize has seeded the object, after it and after every
\* step, every cell whose ceiling is <= 0 holds population exactly 0.
WaterHoldsNoPopulation ==
    Seeded => \A r \in Rows(population) : \A c \in Cols(population) :
                  max_biomass[r][c] <= 0 => population[r][c] = 0

\* a stepped, populated grid with a lake in its interior
PopulatedAroundLake ==
    /\ Stepped
    /\ GridSum(population) > 0
    /\ \E r \in Rows(population) : \E c \in Cols(population) :
           ~IsBorder(population, r, c) /\ max_biomass[r][c] <= 0

\* C3: right after the migration of every step taken from an initialized
\* object, every cell of the first and last row and column holds 0.
BorderEmptyAfterMigration ==
    Stepped => \A rc \in BorderCells(migrate_out) : migrate_out[rc[1]][rc[2]] = 0

\* a migration whose input had animals on a border cell
BorderPopulationMigrated ==
    /\ Stepped
    /\ \E rc \in BorderCells(migrate_in) : migrate_in[rc[1]][rc[2]] > 0

\* C4: after every step every cell has biomass >= 0 and population >= 0,
\* also when the grid returned by the migration holds negative values.
NonNegativeAfterStep ==
    Stepped => \A r \in Rows(population) : \A c \in Cols(population) :
                   biomass[r][c] >= 0 /\ population[r][c] >= 0

\* a step whose migration returned a negative cell
NegativeMigrationOutput ==
    /\ Stepped
    /\ \E r \in Rows(migrate_out) : \E c \in Cols(migrate_out) : migrate_out[r][c] < 0

\* C5: when the total handed to _migrate is below 0.1, the grid it returns
\* equals the grid handed to it cell for cell.
MigrationSkippedBelowThreshold ==
    (Stepped /\ GridSum(migrate_in) < Scale \div 10) => migrate_out = migrate_in

\* a skipped migration of a grid with animals on a border cell
SkippedWithBorderPopulation ==
    /\ Stepped
    /\ GridSum(migrate_in) < Scale \div 10
    /\ \E rc \in BorderCells(migrate_in) : migrate_in[rc[1]][rc[2]] > 0
    /\ migrate_out = migrate_in

\* C6: a step on an object that initialize has not seeded, or with no
\* simulation started, ends in an error and not in a snapshot, and leaves
\* the year, the grids and the simulation handle as they were; and
\* start_simulation with no data loaded returns an error and creates no
\* simulation.
UninitializedCallsFail ==
    [][ /\ (ret'.op = "step" /\ ~Seeded)
            => /\ ret'.kind = "raised"
               /\ UNCHANGED << year, biomass, max_biomass, population, _sim, instance >>
        /\ (ret'.op = "step_simulation" /\ (_sim = "None" \/ ~Seeded))
            => /\ ret'.kind \in {"error", "raised"}
               /\ UNCHANGED << year, biomass, max_biomass, population, _sim, instance >>
        /\ (ret'.op = "start_simulation" /\ _biomass_data = None)
            => /\ ret'.kind = "error"
               /\ UNCHANGED << year, biomass, max_biomass, population, _sim, instance >>
      ]_vars

\* step_simulation has been refused with no simulation started
StepRefused ==
    /\ ret.op = "step_simulation"
    /\ ret.kind = "error"
    /\ _sim = "None"
    /\ _biomass_data # None

\* C7: initialize and start_simulation leave the year at 0, each step adds
\* exactly 1 to it, and step_simulation(years) on a started simulation
\* returns, for every years >= 0, a snapshot whose year is the year before
\* the call plus years.
YearCounter ==
    [][ /\ (ret'.op \in {"initialize", "start_simulation"} /\ _biomass_data # None)
            => year' = 0
        /\ (ret'.op = "step" /\ Seeded)
            => (ret'.kind = "snapshot" /\ year' = year + 1)
        /\ (ret'.op = "step_simulation" /\ _sim = "Simulation" /\ Seeded)
            => /\ ret'.kind = "snapshot"
               /\ ret'.year = year + ret'.arg
               /\ year' = year + ret'.arg
      ]_vars

\* C8: when the raster has a candidate cell the seeded grid sums to
\* total_population, whatever the draws, and with no candidate cell it is
\* all zero.  The release radius is at least 30 cells, beyond the rasters
\* of the model, so every land cell is a candidate.
SeedingSumsToTarget ==
    JustSeeded =>
        IF \E r \in Rows(max_biomass) : \E c \in Cols(max_biomass) : max_biomass[r][c] > 0
        THEN Abs(GridSum(population) - ret.arg * Scale) <= Tolerance(population)
        ELSE population = Zeros(Height(population), Width(population))

\* C9: in the scenario the seeded grid sums to 100 with an empty border,
\* and after exactly one step the total lies within [95, 105] and at least
\* one cell is occupied.
ScenarioWithinFivePercent ==
    /\ JustSeeded
        => /\ Abs(GridSum(population) - 100 * Scale) <= Tolerance(population)
           /\ \A rc \in BorderCells(population) : population[rc[1]][rc[2]] = 0
    /\ (Stepped /\ ret.year = 1)
        => /\ GridSum(population) >= 95 * Scale
           /\ GridSum(population) <= 105 * Scale
           /\ occupied_cells(population) >= 1

\* C10: once initialize has seeded the object, after it and after every
\* step, every cell's biomass is at most its ceiling, and the ceiling is
\* the loaded raster.
BiomassBelowCeiling ==
    Seeded => /\ max_biomass = _biomass_data
              /\ \A r \in Rows(biomass) : \A c \in Cols(biomass) :
                     biomass[r][c] <= max_biomass[r][c]

\* two steps under full regrowth, with grazed cells below their ceiling
GrazedUnderFullRegrowth ==
    /\ Stepped
    /\ year >= 2
    /\ config.annual_growth_factor = Frac
    /\ \E r \in Rows(biomass) : \E c \in Cols(biomass) :
           biomass[r][c] < max_biomass[r][c]

====
